---- MODULE Spec2Model ----
(***************************************************************************)
(* Federation transaction ingress: Send (/_matrix/federation/v1/send),     *)
(* the in-flight registry keyed by (origin, txnID), the per-room FIFO      *)
(* input workers, processTransaction and processEDUs.                      *)
(* Source: src/internal/httputil/internalapi.go                            *)
(***************************************************************************)
EXTENDS Integers, Sequences, FiniteSets, TLC

(***************************************************************************)
(* Bounds of the model and constants of the program.                       *)
(***************************************************************************)
NumReqs == 3            \* calls of Send
NumCalls == 2           \* requests to the internal API endpoints
NumLeaders == 2         \* calls of Send with keys of their own, which all lead
MaxGoroutines == 2      \* goroutines of one room that are looked at
MaxLen == 3             \* longest PDU list of the transactions of mixed events
Slack == 1              \* how far around the size limits the big transactions go
MaxPDUs == 50           \* internalapi.go:528
MaxEDUs == 100          \* internalapi.go:528
StatusOK == 200
StatusAccepted == 202
StatusBadRequest == 400
StatusRequestTimeout == 408

Reqs == 1..NumReqs
Origins == {"a.example", "b.example"}
TxnIDs == {"t1", "t2"}
Rooms == {"!r1", "!r2"}
EventIDs == {"$a", "$b"}

\* What becomes of a PDU: the first stage of the pipeline that fails for it,
\* or what the roomserver answers when the event is submitted.
SkipKinds == {"peekfail", "verfail", "parsefail"}
TaskKinds == {"ok", "notallowed", "rsfail"}
PDUKinds == SkipKinds \cup {"badjson", "banned", "sigfail"} \cup TaskKinds
ParsedKinds == {"banned", "sigfail"} \cup TaskKinds

EDUTypes == {"m.typing", "m.direct_to_device", "m.device_list_update",
             "m.receipt", "m.signing_key_update", "other"}

ACLError == "Forbidden by server ACLs"
SigError == "signature verification failed"

\* A body that is not JSON: json.Unmarshal fails and leaves txnEvents empty
NotJSONBody == [json |-> FALSE, pdus |-> <<>>, edus |-> <<>>]

mkPDU(k, room, eid) == [kind |-> k, room_id |-> room, event_id |-> eid]
mkEDU(ty, bad, us) == [type |-> ty, malformed |-> bad, users |-> us]
mkUser(d, f) == [domain |-> d, fails |-> f]
mkTxn(ps, es) == [json |-> TRUE, pdus |-> ps, edus |-> es]

SeqsUpTo(S, n) == UNION {[1..m -> S] : m \in 0..n}

(***************************************************************************)
(* sync.Map                                                                *)
(***************************************************************************)
\* faulty variant: the load never finds the key
LoadedNever(m, k) == FALSE

Loaded(m, k) == k \in DOMAIN m

LoadOrStore(m, k, v) == IF k \in DOMAIN m THEN m ELSE (k :> v) @@ m

\* faulty variant: the entry stays
DeleteNothing(m, k) == m

Delete(m, k) == [x \in (DOMAIN m) \ {k} |-> m[x]]

(***************************************************************************)
(* util.JSONResponse and the channel of responses                          *)
(***************************************************************************)
JSONResponse(code, errcode, pdus) ==
    [Code |-> code, JSON |-> [errcode |-> errcode, pdus |-> pdus]]

\* the zero value, which a receive on a closed and empty channel yields
ZeroResponse == JSONResponse(0, "nil", <<>>)

makeChan == [buf |-> <<>>, closed |-> FALSE]

\* <-ch can proceed
CanRecv(c) == c.buf # <<>> \/ c.closed

RecvValue(c) == IF c.buf # <<>> THEN Head(c.buf) ELSE ZeroResponse

RecvChan(c) == IF c.buf # <<>> THEN [c EXCEPT !.buf = Tail(c.buf)] ELSE c

\* ch <- v can proceed (capacity 1); a send on a closed channel panics
CanSend(c) == Len(c.buf) < 1 /\ ~c.closed

Index(origin, txnID) == <<origin, txnID>>

(***************************************************************************)
(* sendFIFOQueue                                                           *)
(***************************************************************************)
newSendFIFOQueue == [tasks |-> <<>>, count |-> 0, notifs |-> 0]

push(q, frame) ==
    [tasks |-> Append(q.tasks, frame),
     count |-> q.count + 1,
     notifs |-> 1]

popOK(q) == q.count # 0

\* faulty variant: the newest task is taken
popFrameLast(q) == q.tasks[Len(q.tasks)]

popFrame(q) == q.tasks[1]

\* faulty variant: the task that is returned stays in the queue
popKeep(q) == q

pop(q) ==
    IF q.count = 0 THEN q
    ELSE [q EXCEPT !.tasks = Tail(q.tasks), !.count = q.count - 1]

newInputWorker == [running |-> FALSE, input |-> newSendFIFOQueue]

VARIABLES
    pc,                     \* where each call of Send is
    origin, txnID,          \* request.Origin(), txnID of each call
    leader,                 \* whether LoadOrStore stored the call's channel
    ch,                     \* the channel each call holds, named by the call that made it
    chans,                  \* the channels, by the call that made them
    inFlightTxnsPerOrigin,  \* index -> channel
    txnEvents,              \* the body of each leader's request, as decoded
    i, e,                   \* positions of the PDU loop and of the EDU loop
    results,                \* results map of processTransaction
    tasks,                  \* tasks list of processTransaction
    wg,                     \* the wait group of processTransaction
    res,                    \* the response each call returns
    inputWorkers,           \* room ID -> inputWorker
    goroutines,             \* room ID -> the goroutines inside inputWorker.run
    pushed, completed,      \* history: per room, tasks in push order and in wg.Done order
    calls,                  \* history: downstream calls made by each call of Send
    rsCalls,                \* history: tasks submitted to the roomserver (SendEvents)
    eduCalls,               \* history: calls made by processEDUs
    visited,                \* history: the EDUs each call has visited, in the order of the visits
    cancelled,              \* the calls whose httpReq.Context() is cancelled
    api                     \* the requests served by the internal API endpoints

vars == <<pc, origin, txnID, leader, ch, chans, inFlightTxnsPerOrigin, txnEvents, i, e,
          results, tasks, wg, res, inputWorkers, goroutines, pushed, completed,
          calls, rsCalls, eduCalls, visited, cancelled, api>>

reqVars == <<pc, origin, txnID, leader, ch, chans, inFlightTxnsPerOrigin, txnEvents, i, e,
             results, res, calls, eduCalls, visited, cancelled, api>>

\* var txnEvents struct{...}
NoTxn == [json |-> FALSE, pdus |-> <<>>, edus |-> <<>>]
\* the call has not got its response yet
NoRes == JSONResponse(-1, "nil", <<>>)

(***************************************************************************)
(* The internal API endpoints (lines 26-49, 86-306)                        *)
(***************************************************************************)
APICalls == 1..NumCalls

\* what an endpoint is sent: a body that is not JSON, or the JSON of a request
APIBodies == {[json |-> FALSE, doc |-> ""], [json |-> TRUE, doc |-> "q1"],
              [json |-> TRUE, doc |-> "q2"]}

\* what the internal API does when it is called: the result it gives and its error
NoError == [type |-> "nil", Err |-> ""]
APIOutcomes ==
    {[res |-> "v1", err |-> NoError], [res |-> "v2", err |-> NoError],
     [res |-> "", err |-> [type |-> "FederationClientError", Err |-> "M_FORBIDDEN"]],
     [res |-> "", err |-> [type |-> "error", Err |-> "context canceled"]]}

\* json.NewDecoder(req.Body).Decode(&request): the error and the request
DecodeError(body) == IF body.json THEN NoError ELSE [type |-> "error", Err |-> "invalid character"]
DecodeRequest(body) == IF body.json THEN body.doc ELSE ""

APIResponse(code, kind, v) == [Code |-> code, JSON |-> [kind |-> kind, value |-> v]]

\* util.MessageResponse(code, msg)
MessageResponse(code, msg) == APIResponse(code, "message", msg)

\* util.ErrorResponse(err)
ErrorResponse(err) == MessageResponse(500, err.Err)

\* the pointer federationClientError returns: nil, the error itself when it is a
\* *api.FederationClientError, or a new one made of err.Error()
federationClientError(err) ==
    IF err.type = "nil" THEN [isnil |-> TRUE, Err |-> ""]
    ELSE IF err.type = "FederationClientError" THEN [isnil |-> FALSE, Err |-> err.Err]
    ELSE [isnil |-> FALSE, Err |-> err.Err]

\* the error a *api.FederationClientError becomes when it is returned as an error:
\* the interface holds the pointer and is not nil, also when the pointer is
ErrorOfPointer(p) ==
    [type |-> "FederationClientError", Err |-> IF p.isnil THEN "<nil>" ELSE p.Err]

\* what an RPC handler of AddRoutes leaves: *res as filled in, and its error
RPCHandler(request, out) == out

\* what a Proxy handler of AddRoutes returns: &res, federationClientError(err)
ProxyHandler(request, out) ==
    [res |-> out.res, err |-> ErrorOfPointer(federationClientError(out.err))]

\* the response of the handler MakeInternalRPCAPI builds (lines 27-37)
MakeInternalRPCAPI(body, out) ==
    IF DecodeError(body).type # "nil"
    THEN MessageResponse(StatusBadRequest, DecodeError(body).Err)
    ELSE LET ret == RPCHandler(DecodeRequest(body), out)
         IN IF ret.err.type # "nil" THEN ErrorResponse(ret.err)
            ELSE APIResponse(StatusOK, "response", ret.res)

\* the response of the handler MakeInternalProxyAPI builds (lines 41-48): f is
\* called and nothing it returns is used
MakeInternalProxyAPI(body, out) ==
    IF DecodeError(body).type # "nil"
    THEN MessageResponse(StatusBadRequest, DecodeError(body).Err)
    ELSE APIResponse(StatusOK, "request", DecodeRequest(body))

NoAPICall == [pc |-> "idle", kind |-> "", body |-> [json |-> FALSE, doc |-> ""],
              called |-> FALSE, ret |-> [res |-> "", err |-> NoError],
              response |-> APIResponse(-1, "", "")]

Init ==
    /\ pc = [r \in Reqs |-> "idle"]
    /\ origin = [r \in Reqs |-> ""]
    /\ txnID = [r \in Reqs |-> ""]
    /\ leader = [r \in Reqs |-> FALSE]
    /\ ch = [r \in Reqs |-> 0]
    /\ chans = [r \in Reqs |-> makeChan]
    /\ inFlightTxnsPerOrigin = <<>>
    /\ txnEvents = [r \in Reqs |-> NoTxn]
    /\ i = [r \in Reqs |-> 0]
    /\ e = [r \in Reqs |-> 0]
    /\ results = [r \in Reqs |-> <<>>]
    /\ tasks = [r \in Reqs |-> <<>>]
    /\ wg = [r \in Reqs |-> 0]
    /\ res = [r \in Reqs |-> NoRes]
    /\ inputWorkers = <<>>
    /\ goroutines = [room \in Rooms |-> <<>>]
    /\ pushed = [room \in Rooms |-> <<>>]
    /\ completed = [room \in Rooms |-> <<>>]
    /\ calls = [r \in Reqs |-> {}]
    /\ rsCalls = {}
    /\ eduCalls = {}
    /\ visited = [r \in Reqs |-> <<>>]
    /\ cancelled = {}
    /\ api = [c \in APICalls |-> NoAPICall]

(***************************************************************************)
(* Send: admission (lines 478-499)                                         *)
(***************************************************************************)
\* index := ...; v, ok := inFlightTxnsPerOrigin.LoadOrStore(index, make(chan, 1))
\* (the calls are numbered in the order of their LoadOrStore)
Admit(r, o, tid) ==
    /\ pc[r] = "idle"
    /\ \A q \in 1..(r - 1) : pc[q] # "idle"
    /\ origin' = [origin EXCEPT ![r] = o]
    /\ txnID' = [txnID EXCEPT ![r] = tid]
    /\ LET index == Index(o, tid)
           ok == Loaded(inFlightTxnsPerOrigin, index)
           m == LoadOrStore(inFlightTxnsPerOrigin, index, r)
       IN /\ inFlightTxnsPerOrigin' = m
          /\ ch' = [ch EXCEPT ![r] = m[index]]
          /\ leader' = [leader EXCEPT ![r] = ~ok]
          /\ pc' = [pc EXCEPT ![r] = IF ok THEN "follow" ELSE "decode"]
    /\ UNCHANGED <<api, chans, txnEvents, i, e, results, tasks, wg, res, inputWorkers,
                   goroutines, pushed, completed, calls, rsCalls, eduCalls, visited, cancelled>>

\* faulty variant: the zero value is returned as it is
FollowerResultRaw(v) == v

\* what a follower returns for the value it received
FollowerResult(v) ==
    IF v.Code = 0 THEN JSONResponse(StatusAccepted, "nil", <<>>) ELSE v

\* case res := <-ch
FollowerRecv(r) ==
    /\ pc[r] = "follow"
    /\ CanRecv(chans[ch[r]])
    /\ res' = [res EXCEPT ![r] = FollowerResult(RecvValue(chans[ch[r]]))]
    /\ chans' = [chans EXCEPT ![ch[r]] = RecvChan(chans[ch[r]])]
    /\ pc' = [pc EXCEPT ![r] = "done"]
    /\ UNCHANGED <<api, origin, txnID, leader, ch, inFlightTxnsPerOrigin, txnEvents, i, e,
                   results, tasks, wg, inputWorkers, goroutines, pushed,
                   completed, calls, rsCalls, eduCalls, visited, cancelled>>

\* case <-ctx.Done(): the five minutes are over or the caller has gone
FollowerTimeout(r) ==
    /\ pc[r] = "follow"
    /\ res' = [res EXCEPT ![r] = JSONResponse(StatusRequestTimeout, "nil", <<>>)]
    /\ pc' = [pc EXCEPT ![r] = "done"]
    /\ UNCHANGED <<api, origin, txnID, leader, ch, chans, inFlightTxnsPerOrigin, txnEvents, i, e,
                   results, tasks, wg, inputWorkers, goroutines, pushed,
                   completed, calls, rsCalls, eduCalls, visited, cancelled>>

\* the caller of call r goes away: httpReq.Context() is cancelled
CancelRequest(r) ==
    /\ pc[r] \notin {"idle", "done"}
    /\ r \notin cancelled
    /\ cancelled' = cancelled \cup {r}
    /\ UNCHANGED <<api, pc, origin, txnID, leader, ch, chans, inFlightTxnsPerOrigin, txnEvents,
                   i, e, results, tasks, wg, res, inputWorkers, goroutines, pushed,
                   completed, calls, rsCalls, eduCalls, visited>>

(***************************************************************************)
(* Send: the leader (lines 500-560) and processTransaction (585-675)       *)
(***************************************************************************)
\* faulty variant: a list as long as its limit is rejected too
TooLargeInclusive(txn) == Len(txn.pdus) >= MaxPDUs \/ Len(txn.edus) >= MaxEDUs

\* len(txnEvents.PDUs) > 50 || len(txnEvents.EDUs) > 100
TooLarge(txn) == Len(txn.pdus) > MaxPDUs \/ Len(txn.edus) > MaxEDUs

NotJSONResponse == JSONResponse(StatusBadRequest, "M_NOT_JSON", <<>>)
TooLargeResponse == JSONResponse(StatusBadRequest, "M_BAD_JSON: max 50 pdus / 100 edus", <<>>)
BadPDUResponse == JSONResponse(StatusBadRequest, "M_BAD_JSON: PDU contains bad JSON", <<>>)

\* faulty variant: after the PDU loop the leader goes straight to wg.Wait()
LoopPCNoEDUs(txn, n) ==
    IF n <= Len(txn.pdus) THEN "pdus" ELSE "wait"

\* where processTransaction goes on once PDU number n is the next one
LoopPC(txn, n) ==
    IF n <= Len(txn.pdus) THEN "pdus"
    ELSE IF Len(txn.edus) > 0 THEN "edus" ELSE "wait"

\* faulty variant: the leader goes straight to close(ch) and deletes nothing
ReturnPCClose == "close"

\* the deferred calls of the leader run in this order: Delete (deferred last), then close
ReturnPC == "delete"

\* json.Unmarshal of the body, the size check, and the call of processTransaction
Decode(r, body) ==
    /\ pc[r] = "decode"
    /\ txnEvents' = [txnEvents EXCEPT ![r] = body]
    /\ IF ~body.json
       THEN /\ res' = [res EXCEPT ![r] = NotJSONResponse]
            /\ pc' = [pc EXCEPT ![r] = ReturnPC]
            /\ UNCHANGED i
       ELSE IF TooLarge(body)
       THEN /\ res' = [res EXCEPT ![r] = TooLargeResponse]
            /\ pc' = [pc EXCEPT ![r] = ReturnPC]
            /\ UNCHANGED i
       ELSE /\ i' = [i EXCEPT ![r] = 1]
            /\ pc' = [pc EXCEPT ![r] = LoopPC(body, 1)]
            /\ UNCHANGED res
    /\ e' = [e EXCEPT ![r] = 1]
    /\ UNCHANGED <<api, origin, txnID, leader, ch, chans, inFlightTxnsPerOrigin,
                   results, tasks, wg, inputWorkers, goroutines, pushed,
                   completed, calls, rsCalls, eduCalls, visited, cancelled>>

\* the downstream calls the loop body makes for a PDU before it is done with it
PDUCalls(k) ==
    IF k = "peekfail" THEN {}
    ELSE IF k \in {"verfail", "badjson", "parsefail"} THEN {"QueryRoomVersionForRoom"}
    ELSE IF k = "banned" THEN {"QueryRoomVersionForRoom", "IsServerBannedFromRoom"}
    ELSE {"QueryRoomVersionForRoom", "IsServerBannedFromRoom", "VerifyEventSignatures"}

PDUResult(err) == [Error |-> err]

\* results[eid] = v
SetResult(m, eid, v) == (eid :> v) @@ m

\* faulty variant: a skipped PDU gets a result too
LoopResultsSkipped(m, pdu) ==
    IF pdu.kind = "banned" THEN SetResult(m, pdu.event_id, PDUResult(ACLError))
    ELSE IF pdu.kind = "sigfail" THEN SetResult(m, pdu.event_id, PDUResult(SigError))
    ELSE SetResult(m, pdu.event_id, PDUResult("skipped"))

\* faulty variant: a banned PDU is passed over without a result
LoopResultsNoACL(m, pdu) ==
    IF pdu.kind = "sigfail" THEN SetResult(m, pdu.event_id, PDUResult(SigError))
    ELSE m

\* faulty variant: a PDU whose signature fails is passed over without a result
LoopResultsNoSig(m, pdu) ==
    IF pdu.kind = "banned" THEN SetResult(m, pdu.event_id, PDUResult(ACLError))
    ELSE m

\* the results map after the loop body has handled a PDU that is not enqueued
LoopResults(m, pdu) ==
    IF pdu.kind = "banned" THEN SetResult(m, pdu.event_id, PDUResult(ACLError))
    ELSE IF pdu.kind = "sigfail" THEN SetResult(m, pdu.event_id, PDUResult(SigError))
    ELSE m

\* the context Send gives to processTransaction: context.Background()
TransactionCtx == "Background"

\* (n: which PDU of the list the event is)
newInputTask(pdu, n) ==
    [ctx |-> TransactionCtx, event |-> pdu, n |-> n, err |-> "nil", written |-> 0]

\* one pass of the loop body for a PDU that becomes a task, up to
\* inputWorkers.LoadOrStore (lines 590-643)
LoadWorker(r) ==
    /\ pc[r] = "pdus"
    /\ LET txn == txnEvents[r]
           pdu == txn.pdus[i[r]]
           room == pdu.room_id
       IN /\ pdu.kind \in TaskKinds
          /\ calls' = [calls EXCEPT ![r] = @ \cup PDUCalls(pdu.kind)]
          /\ inputWorkers' = LoadOrStore(inputWorkers, room, newInputWorker)
          /\ pc' = [pc EXCEPT ![r] = "push"]
    /\ UNCHANGED <<api, origin, txnID, leader, ch, chans, inFlightTxnsPerOrigin,
                   txnEvents, i, e, results, tasks, wg, res, goroutines, pushed,
                   completed, rsCalls, eduCalls, visited, cancelled>>

\* wg.Add(1), the new task, and worker.input.push(task) (lines 644-652)
EnqueuePDU(r) ==
    /\ pc[r] = "push"
    /\ LET txn == txnEvents[r]
           pdu == txn.pdus[i[r]]
           room == pdu.room_id
           task == <<r, Len(tasks[r]) + 1>>
       IN /\ wg' = [wg EXCEPT ![r] = @ + 1]
          /\ tasks' = [tasks EXCEPT ![r] = Append(@, newInputTask(pdu, i[r]))]
          /\ inputWorkers' = [inputWorkers EXCEPT ![room].input = push(@, task)]
          /\ pushed' = [pushed EXCEPT ![room] = Append(@, task)]
          /\ pc' = [pc EXCEPT ![r] = "cas"]
    /\ UNCHANGED <<api, origin, txnID, leader, ch, chans, inFlightTxnsPerOrigin,
                   txnEvents, i, e, results, res, goroutines, completed, calls,
                   rsCalls, eduCalls, visited, cancelled>>

\* faulty variant: the flag is set without comparing
CASRunningAlways(w) == TRUE

\* faulty variant: the flag is also taken when tasks are waiting in the queue
CASRunningOrQueued(w) == w.running = FALSE \/ w.input.count > 0

\* worker.running.CAS(false, true) succeeds
CASRunning(w) == w.running = FALSE

\* (gone: history, whether the caller of the task had gone when the task was popped)
newGoroutine == [pc |-> "pop", task |-> <<>>, gone |-> FALSE]

\* if worker.running.CAS(false, true) { go worker.run() } (lines 653-655)
SpawnWorker(r) ==
    /\ pc[r] = "cas"
    /\ LET txn == txnEvents[r]
           room == txn.pdus[i[r]].room_id
       IN /\ IF CASRunning(inputWorkers[room])
             THEN /\ inputWorkers' = [inputWorkers EXCEPT ![room].running = TRUE]
                  /\ goroutines' = [goroutines EXCEPT ![room] = Append(@, newGoroutine)]
             ELSE UNCHANGED <<inputWorkers, goroutines>>
          /\ i' = [i EXCEPT ![r] = @ + 1]
          /\ pc' = [pc EXCEPT ![r] = LoopPC(txn, i[r] + 1)]
    /\ UNCHANGED <<api, origin, txnID, leader, ch, chans, inFlightTxnsPerOrigin,
                   txnEvents, e, results, tasks, wg, res, pushed, completed,
                   calls, rsCalls, eduCalls, visited, cancelled>>

(***************************************************************************)
(* processEDUs (lines 730-829)                                             *)
(***************************************************************************)
\* faulty variant: the domain of the user is not compared with the origin
EDUCallsAnyDomain(r, n, edu, o) ==
    IF edu.malformed \/ edu.type = "other" THEN {}
    ELSE IF edu.type = "m.typing"
    THEN IF Len(edu.users) > 0 THEN {<<r, n, 1, "SendTyping">>} ELSE {}
    ELSE IF edu.type = "m.direct_to_device"
    THEN {<<r, n, u, "SendToDevice">> : u \in 1..Len(edu.users)}
    ELSE IF edu.type = "m.device_list_update"
    THEN {<<r, n, 0, "InputDeviceListUpdate">>}
    ELSE IF edu.type = "m.receipt"
    THEN {<<r, n, u, "InputReceiptEvent">> : u \in 1..Len(edu.users)}
    ELSE {<<r, n, 0, "InputCrossSigningKeyUpdate">>}

\* the calls the switch makes for one EDU, each as <<call of Send, EDU, user, API>>
EDUCalls(r, n, edu, o) ==
    IF edu.malformed \/ edu.type = "other" THEN {}
    ELSE IF edu.type = "m.typing"
    THEN IF Len(edu.users) > 0 /\ edu.users[1].domain = o
         THEN {<<r, n, 1, "SendTyping">>} ELSE {}
    ELSE IF edu.type = "m.direct_to_device"
    THEN {<<r, n, u, "SendToDevice">> : u \in 1..Len(edu.users)}
    ELSE IF edu.type = "m.device_list_update"
    THEN {<<r, n, 0, "InputDeviceListUpdate">>}
    ELSE IF edu.type = "m.receipt"
    THEN {<<r, n, u, "InputReceiptEvent">> :
             u \in {v \in 1..Len(edu.users) : edu.users[v].domain = o}}
    ELSE {<<r, n, 0, "InputCrossSigningKeyUpdate">>}

\* the calls among them that return an error (the user of a call without a user
\* of its own is the first of the payload)
FailedCalls(r, n, edu, o) ==
    {c \in EDUCalls(r, n, edu, o) :
        LET u == IF c[3] = 0 THEN 1 ELSE c[3]
        IN u <= Len(edu.users) /\ edu.users[u].fails}

\* faulty variant: a payload that is malformed or a call that fails ends the loop
AfterEDUStopOnFailure(r, n, txn, o) ==
    IF txn.edus[n].malformed \/ FailedCalls(r, n, txn.edus[n], o) # {}
    THEN Len(txn.edus) + 1 ELSE n + 1

\* the EDU the loop goes on with after EDU number n: every path through the
\* switch, continue included, ends the pass and the range takes the next one
AfterEDU(r, n, txn, o) == n + 1

\* faulty variant: when a PDU is bad JSON, processEDUs runs before the 400 is returned
HandlePDUThenEDUs(r) ==
    /\ pc[r] = "pdus"
    /\ LET txn == txnEvents[r]
           pdu == txn.pdus[i[r]]
       IN /\ pdu.kind \notin TaskKinds
          /\ calls' = [calls EXCEPT ![r] = @ \cup PDUCalls(pdu.kind)]
          /\ IF pdu.kind = "badjson"
             THEN /\ res' = [res EXCEPT ![r] = BadPDUResponse]
                  /\ pc' = [pc EXCEPT ![r] = ReturnPC]
                  /\ eduCalls' = eduCalls \cup
                        UNION {EDUCalls(r, n, txn.edus[n], origin[r]) : n \in 1..Len(txn.edus)}
                  /\ visited' = [visited EXCEPT ![r] = [n \in 1..Len(txn.edus) |-> n]]
                  /\ UNCHANGED <<i, results>>
             ELSE /\ results' = [results EXCEPT ![r] = LoopResults(@, pdu)]
                  /\ i' = [i EXCEPT ![r] = @ + 1]
                  /\ pc' = [pc EXCEPT ![r] = LoopPC(txn, i[r] + 1)]
                  /\ UNCHANGED <<res, eduCalls, visited>>
    /\ UNCHANGED <<api, origin, txnID, leader, ch, chans, inFlightTxnsPerOrigin,
                   txnEvents, e, tasks, wg, inputWorkers, goroutines, pushed,
                   completed, rsCalls, cancelled>>

\* one pass of the loop body for a PDU that is skipped, rejected or aborts (lines 590-639)
HandlePDU(r) ==
    /\ pc[r] = "pdus"
    /\ LET txn == txnEvents[r]
           pdu == txn.pdus[i[r]]
       IN /\ pdu.kind \notin TaskKinds
          /\ calls' = [calls EXCEPT ![r] = @ \cup PDUCalls(pdu.kind)]
          /\ IF pdu.kind = "badjson"
             THEN /\ res' = [res EXCEPT ![r] = BadPDUResponse]
                  /\ pc' = [pc EXCEPT ![r] = ReturnPC]
                  /\ UNCHANGED <<i, results>>
             ELSE /\ results' = [results EXCEPT ![r] = LoopResults(@, pdu)]
                  /\ i' = [i EXCEPT ![r] = @ + 1]
                  /\ pc' = [pc EXCEPT ![r] = LoopPC(txn, i[r] + 1)]
                  /\ UNCHANGED res
    /\ UNCHANGED <<api, origin, txnID, leader, ch, chans, inFlightTxnsPerOrigin,
                   txnEvents, e, tasks, wg, inputWorkers, goroutines, pushed,
                   completed, rsCalls, eduCalls, visited, cancelled>>

\* one pass of the loop of processEDUs
ProcessEDU(r) ==
    /\ pc[r] = "edus"
    /\ LET txn == txnEvents[r]
           n == AfterEDU(r, e[r], txn, origin[r])
       IN /\ eduCalls' = eduCalls \cup EDUCalls(r, e[r], txn.edus[e[r]], origin[r])
          /\ visited' = [visited EXCEPT ![r] = Append(@, e[r])]
          /\ e' = [e EXCEPT ![r] = n]
          /\ pc' = [pc EXCEPT ![r] = IF n <= Len(txn.edus) THEN "edus" ELSE "wait"]
    /\ UNCHANGED <<api, origin, txnID, leader, ch, chans, inFlightTxnsPerOrigin,
                   txnEvents, i, results, tasks, wg, res, inputWorkers,
                   goroutines, pushed, completed, calls, rsCalls, cancelled>>

(***************************************************************************)
(* wg.Wait, the results of the tasks, the response (lines 659-675, 554-559)*)
(***************************************************************************)
\* faulty variant: no wait
WaitReturnsAtOnce(n) == TRUE

\* wg.Wait() returns
WaitReturns(n) == n = 0

\* faulty variant: the error of the task is put in its result
TaskResultWithError(task) ==
    IF task.err # "nil" THEN PDUResult(task.err) ELSE PDUResult("")

\* the record the loop over the tasks stores for a task (lines 662-668)
TaskResult(task) ==
    IF task.err # "nil" THEN PDUResult("") ELSE PDUResult("")

RECURSIVE Aggregate(_, _)
Aggregate(m, ts) ==
    IF ts = <<>> THEN m
    ELSE Aggregate(SetResult(m, Head(ts).event.event_id, TaskResult(Head(ts))), Tail(ts))

\* faulty variant: a task that ended with an error makes the response a 500
OKResponseUnlessTaskFailed(resp, ts) ==
    IF \E k \in 1..Len(ts) : ts[k].err # "nil"
    THEN JSONResponse(500, "", resp) ELSE JSONResponse(StatusOK, "", resp)

\* res := util.JSONResponse{Code: http.StatusOK, JSON: resp}
OKResponse(resp, ts) == JSONResponse(StatusOK, "", resp)

WaitAndAggregate(r) ==
    /\ pc[r] = "wait"
    /\ WaitReturns(wg[r])
    /\ results' = [results EXCEPT ![r] = Aggregate(@, tasks[r])]
    /\ res' = [res EXCEPT ![r] = OKResponse(results'[r], tasks[r])]
    /\ pc' = [pc EXCEPT ![r] = "send"]
    /\ UNCHANGED <<api, origin, txnID, leader, ch, chans, inFlightTxnsPerOrigin,
                   txnEvents, i, e, tasks, wg, inputWorkers, goroutines, pushed,
                   completed, calls, rsCalls, eduCalls, visited, cancelled>>

\* faulty variant: after ch <- res the leader sends again, once for each follower
PublishAgain(r) ==
    /\ pc[r] = "send"
    /\ CanSend(chans[ch[r]])
    /\ chans' = [chans EXCEPT ![ch[r]].buf = Append(@, res[r])]
    /\ UNCHANGED <<api, pc, origin, txnID, leader, ch, inFlightTxnsPerOrigin, txnEvents, i, e,
                   results, tasks, wg, res, inputWorkers, goroutines, pushed,
                   completed, calls, rsCalls, eduCalls, visited, cancelled>>

\* ch <- res
Publish(r) ==
    /\ pc[r] = "send"
    /\ CanSend(chans[ch[r]])
    /\ chans' = [chans EXCEPT ![ch[r]].buf = Append(@, res[r])]
    /\ pc' = [pc EXCEPT ![r] = ReturnPC]
    /\ UNCHANGED <<api, origin, txnID, leader, ch, inFlightTxnsPerOrigin, txnEvents, i, e,
                   results, tasks, wg, res, inputWorkers, goroutines, pushed,
                   completed, calls, rsCalls, eduCalls, visited, cancelled>>

\* defer inFlightTxnsPerOrigin.Delete(index)
DeferredDelete(r) ==
    /\ pc[r] = "delete"
    /\ inFlightTxnsPerOrigin' = Delete(inFlightTxnsPerOrigin, Index(origin[r], txnID[r]))
    /\ pc' = [pc EXCEPT ![r] = "close"]
    /\ UNCHANGED <<api, origin, txnID, leader, ch, chans, txnEvents, i, e,
                   results, tasks, wg, res, inputWorkers, goroutines, pushed,
                   completed, calls, rsCalls, eduCalls, visited, cancelled>>

\* defer close(ch)
DeferredClose(r) ==
    /\ pc[r] = "close"
    /\ chans' = [chans EXCEPT ![ch[r]].closed = TRUE]
    /\ pc' = [pc EXCEPT ![r] = "done"]
    /\ UNCHANGED <<api, origin, txnID, leader, ch, inFlightTxnsPerOrigin, txnEvents, i, e,
                   results, tasks, wg, res, inputWorkers, goroutines, pushed,
                   completed, calls, rsCalls, eduCalls, visited, cancelled>>

(***************************************************************************)
(* inputWorker.run (lines 677-728)                                         *)
(***************************************************************************)
SetAt(s, n, v) == [s EXCEPT ![n] = v]

RemoveAt(s, n) == [k \in 1..(Len(s) - 1) |-> IF k < n THEN s[k] ELSE s[k + 1]]

\* task.ctx.Done() is ready: context.Background() is never done, the context of
\* the request of call r is done once the caller has gone
ctxDone(ctx, r) == IF ctx = "Background" THEN FALSE ELSE r \in cancelled

\* what processEvent returns: the answer of the roomserver to SendEvents
processEvent(pdu) ==
    IF pdu.kind = "ok" THEN "nil"
    ELSE IF pdu.kind = "notallowed" THEN "NotAllowed"
    ELSE "error"

\* task.err when the function literal of run returns (lines 689-725)
TaskErr(task, r) ==
    IF ctxDone(task.ctx, r) THEN "DeadlineExceeded"
    ELSE IF processEvent(task.event) = "NotAllowed" THEN "nil"
    ELSE processEvent(task.event)

\* task, ok := t.input.pop()
WorkerPop(room, g) ==
    /\ g \in 1..Len(goroutines[room])
    /\ goroutines[room][g].pc = "pop"
    /\ LET q == inputWorkers[room].input
       IN IF popOK(q)
          THEN /\ goroutines' = [goroutines EXCEPT ![room] =
                                   SetAt(@, g, [pc |-> "task", task |-> popFrame(q),
                                                gone |-> popFrame(q)[1] \in cancelled])]
               /\ inputWorkers' = [inputWorkers EXCEPT ![room].input = pop(q)]
          ELSE /\ goroutines' = [goroutines EXCEPT ![room] =
                                   SetAt(@, g, [pc |-> "exit", task |-> <<>>, gone |-> FALSE])]
               /\ UNCHANGED inputWorkers
    /\ UNCHANGED <<reqVars, tasks, wg, pushed, completed, rsCalls>>

\* the select of the function literal: the task expires or is processed
WorkerTask(room, g) ==
    /\ g \in 1..Len(goroutines[room])
    /\ goroutines[room][g].pc = "task"
    /\ LET p == goroutines[room][g].task
           task == tasks[p[1]][p[2]]
       IN /\ tasks' = [tasks EXCEPT ![p[1]][p[2]] =
                          [task EXCEPT !.err = TaskErr(task, p[1]), !.written = @ + 1]]
          /\ rsCalls' = IF ctxDone(task.ctx, p[1]) THEN rsCalls ELSE rsCalls \cup {p}
          /\ goroutines' = [goroutines EXCEPT ![room] =
                              SetAt(@, g, [pc |-> "wgdone", task |-> p,
                                           gone |-> goroutines[room][g].gone])]
    /\ UNCHANGED <<reqVars, wg, inputWorkers, pushed, completed>>

\* defer task.wg.Done()
WorkerDone(room, g) ==
    /\ g \in 1..Len(goroutines[room])
    /\ goroutines[room][g].pc = "wgdone"
    /\ LET p == goroutines[room][g].task
       IN /\ wg' = [wg EXCEPT ![p[1]] = @ - 1]
          /\ completed' = [completed EXCEPT ![room] = Append(@, p)]
          /\ goroutines' = [goroutines EXCEPT ![room] =
                              SetAt(@, g, [pc |-> "pop", task |-> <<>>, gone |-> FALSE])]
    /\ UNCHANGED <<reqVars, tasks, inputWorkers, pushed, rsCalls>>

\* faulty variant: the flag is left as it is when run returns
RunningOnExitKept == TRUE

\* the value run stores in running when it returns
RunningOnExit == FALSE

\* defer t.running.Store(false), after pop has found the queue empty
WorkerExit(room, g) ==
    /\ g \in 1..Len(goroutines[room])
    /\ goroutines[room][g].pc = "exit"
    /\ inputWorkers' = [inputWorkers EXCEPT ![room].running = RunningOnExit]
    /\ goroutines' = [goroutines EXCEPT ![room] = RemoveAt(@, g)]
    /\ UNCHANGED <<reqVars, tasks, wg, pushed, completed, rsCalls>>

\* an endpoint made by MakeInternalRPCAPI serves a request
ServeRPC(c, body, out) ==
    /\ api[c].pc = "idle"
    /\ api' = [api EXCEPT ![c] =
                 [pc |-> "done", kind |-> "RPC", body |-> body,
                  called |-> DecodeError(body).type = "nil",
                  ret |-> IF DecodeError(body).type = "nil"
                          THEN RPCHandler(DecodeRequest(body), out) ELSE NoAPICall.ret,
                  response |-> MakeInternalRPCAPI(body, out)]]
    /\ UNCHANGED <<pc, origin, txnID, leader, ch, chans, inFlightTxnsPerOrigin, txnEvents,
                   i, e, results, tasks, wg, res, inputWorkers, goroutines, pushed,
                   completed, calls, rsCalls, eduCalls, visited, cancelled>>

\* an endpoint made by MakeInternalProxyAPI serves a request
ServeProxy(c, body, out) ==
    /\ api[c].pc = "idle"
    /\ api' = [api EXCEPT ![c] =
                 [pc |-> "done", kind |-> "Proxy", body |-> body,
                  called |-> DecodeError(body).type = "nil",
                  ret |-> IF DecodeError(body).type = "nil"
                          THEN ProxyHandler(DecodeRequest(body), out) ELSE NoAPICall.ret,
                  response |-> MakeInternalProxyAPI(body, out)]]
    /\ UNCHANGED <<pc, origin, txnID, leader, ch, chans, inFlightTxnsPerOrigin, txnEvents,
                   i, e, results, tasks, wg, res, inputWorkers, goroutines, pushed,
                   completed, calls, rsCalls, eduCalls, visited, cancelled>>

(***************************************************************************)
(* The inputs and the specifications                                       *)
(***************************************************************************)
Keys == Origins \X TxnIDs

TypingEDU == mkEDU("m.typing", FALSE, <<mkUser("a.example", FALSE)>>)

\* a list of n events, of which every fourth is queued, fails its signature check,
\* has no room ID, is banned
ManyPDUs(n) ==
    [k \in 1..n |->
        mkPDU(IF k % 4 = 1 THEN "ok" ELSE IF k % 4 = 2 THEN "sigfail"
              ELSE IF k % 4 = 3 THEN "peekfail" ELSE "banned",
              "!r1", IF k % 2 = 1 THEN "$a" ELSE "$b")]

ManyEDUs(n) ==
    [k \in 1..n |-> IF k % 2 = 1 THEN TypingEDU ELSE mkEDU("other", FALSE, <<>>)]

\* the bodies of the calls that contend for a key: one for each way a leader ends
SmallBodies ==
    {NotJSONBody,
     mkTxn(ManyPDUs(MaxPDUs + 1), <<>>),
     mkTxn(<<mkPDU("badjson", "!r1", "$b")>>, <<>>),
     mkTxn(<<mkPDU("ok", "!r1", "$a")>>, <<TypingEDU>>)}

LeaderStep(r) ==
    \/ HandlePDU(r)
    \/ LoadWorker(r)
    \/ EnqueuePDU(r)
    \/ SpawnWorker(r)
    \/ ProcessEDU(r)
    \/ WaitAndAggregate(r)
    \/ Publish(r)
    \/ DeferredDelete(r)
    \/ DeferredClose(r)

FollowerStep(r) ==
    \/ FollowerRecv(r)
    \/ FollowerTimeout(r)

WorkerStep(room) ==
    \E g \in 1..MaxGoroutines :
        \/ WorkerPop(room, g)
        \/ WorkerTask(room, g)
        \/ WorkerDone(room, g)
        \/ WorkerExit(room, g)

\* the keys the contending calls use
SmallKeys == {<<"a.example", "t1">>, <<"b.example", "t1">>}

\* the key of the first call (the later calls take either key)
FirstKey == <<"a.example", "t1">>

Next ==
    \/ \E r \in Reqs, k \in SmallKeys : (r = 1 => k = FirstKey) /\ Admit(r, k[1], k[2])
    \/ \E r \in Reqs : pc[r] = "decode" /\ \E body \in SmallBodies : Decode(r, body)
    \/ \E r \in Reqs : LeaderStep(r)
    \/ \E r \in Reqs : FollowerStep(r)
    \/ \E room \in Rooms : WorkerStep(room)

Spec == Init /\ [][Next]_vars

\* Transactions with keys of their own, whose events meet in the queues of the rooms
KeySeq == <<<<"a.example", "t1">>, <<"b.example", "t1">>, <<"a.example", "t2">>,
            <<"b.example", "t2">>>>

Leaders == 1..NumLeaders

RoomBodies ==
    {mkTxn(<<mkPDU("ok", "!r1", "$a")>>, <<>>),
     mkTxn(<<mkPDU("ok", "!r1", "$a"), mkPDU("rsfail", "!r1", "$b")>>, <<>>),
     mkTxn(<<mkPDU("sigfail", "!r1", "$b"), mkPDU("notallowed", "!r2", "$a")>>, <<TypingEDU>>)}

RoomNext ==
    \/ \E r \in Leaders : Admit(r, KeySeq[r][1], KeySeq[r][2])
    \/ \E r \in Leaders : pc[r] = "decode" /\ \E body \in RoomBodies : Decode(r, body)
    \/ \E r \in Leaders : LeaderStep(r)
    \/ \E room \in Rooms : WorkerStep(room)

RoomSpec == Init /\ [][RoomNext]_vars

\* One transaction of mixed events: every outcome of a PDU, event IDs that repeat
MixedPDUs == {mkPDU(k, "!r1", id) : k \in PDUKinds, id \in EventIDs}

MixedBodies ==
    {mkTxn(<<>>, <<TypingEDU>>)} \cup {mkTxn(ps, <<>>) : ps \in SeqsUpTo(MixedPDUs, MaxLen)}

PDUNext ==
    \/ \E r \in {1} : Admit(r, KeySeq[r][1], KeySeq[r][2])
    \/ \E r \in {1} : pc[r] = "decode" /\ \E body \in MixedBodies : Decode(r, body)
    \/ \E r \in {1} : LeaderStep(r)
    \/ \E room \in Rooms : WorkerStep(room)

PDUSpec == Init /\ [][PDUNext]_vars

\* One transaction whose lists are as long as the limits, or a little less or more
NearPDUs == {0} \cup ((MaxPDUs - Slack)..(MaxPDUs + Slack))
NearEDUs == {0} \cup ((MaxEDUs - Slack)..(MaxEDUs + Slack))

SizeBodies == {mkTxn(ManyPDUs(np), ManyEDUs(ne)) : np \in NearPDUs, ne \in NearEDUs}

SizeNext ==
    \/ \E r \in {1} : Admit(r, KeySeq[r][1], KeySeq[r][2])
    \/ \E r \in {1} : pc[r] = "decode" /\ \E body \in SizeBodies : Decode(r, body)
    \/ \E r \in {1} : LeaderStep(r)
    \/ \E room \in Rooms : WorkerStep(room)

SizeSpec == Init /\ [][SizeNext]_vars

\* The same program under fair scheduling: every goroutine that can take a step
\* eventually takes one, and the timer of a waiting follower eventually fires.
LiveBodies ==
    {mkTxn(<<mkPDU("ok", "!r1", "$a")>>, <<>>),
     mkTxn(<<mkPDU("sigfail", "!r1", "$b")>>, <<TypingEDU>>)}

LiveNext ==
    \/ \E r \in Reqs, k \in SmallKeys : Admit(r, k[1], k[2])
    \/ \E r \in Reqs : pc[r] = "decode" /\ \E body \in LiveBodies : Decode(r, body)
    \/ \E r \in Reqs : LeaderStep(r)
    \/ \E r \in Reqs : FollowerStep(r)
    \/ \E room \in Rooms : WorkerStep(room)

FairSpec ==
    /\ Init /\ [][LiveNext]_vars
    /\ \A r \in Reqs : WF_vars((\E body \in LiveBodies : Decode(r, body)) \/ LeaderStep(r))
    /\ \A r \in Reqs : WF_vars(FollowerStep(r))
    /\ \A room \in Rooms : WF_vars(WorkerStep(room))

\* One transaction of mixed EDUs: every type, payloads that are malformed, users of
\* the origin and of another server, calls that fail
MixedUsers == {mkUser(d, f) : d \in Origins, f \in BOOLEAN}

MixedEDUs ==
    {mkEDU("m.typing", FALSE, <<u>>) : u \in MixedUsers}
    \cup {mkEDU(ty, TRUE, <<>>) : ty \in EDUTypes \ {"other"}}
    \cup {mkEDU("m.receipt", FALSE, <<u, v>>) :
            u \in MixedUsers, v \in {mkUser("a.example", FALSE)}}
    \cup {mkEDU("m.direct_to_device", FALSE, <<mkUser("a.example", TRUE), mkUser("b.example", FALSE)>>),
          mkEDU("m.device_list_update", FALSE, <<mkUser("a.example", TRUE)>>),
          mkEDU("m.signing_key_update", FALSE, <<mkUser("a.example", TRUE)>>),
          mkEDU("other", FALSE, <<>>)}

EDUBodies ==
    {mkTxn(<<>>, es) : es \in SeqsUpTo(MixedEDUs, MaxLen)}
    \cup {mkTxn(<<mkPDU("sigfail", "!r1", "$b"), mkPDU("rsfail", "!r1", "$a")>>, <<ed>>) :
            ed \in MixedEDUs}

EDUNext ==
    \/ \E r \in {1} : Admit(r, KeySeq[r][1], KeySeq[r][2])
    \/ \E r \in {1} : pc[r] = "decode" /\ \E body \in EDUBodies : Decode(r, body)
    \/ \E r \in {1} : LeaderStep(r)
    \/ \E room \in Rooms : WorkerStep(room)

EDUSpec == Init /\ [][EDUNext]_vars

\* One transaction whose caller may go away at any moment
CancelBodies ==
    RoomBodies
    \cup {mkTxn(ps, <<>>) :
            ps \in SeqsUpTo({mkPDU("ok", "!r1", "$a"), mkPDU("rsfail", "!r2", "$b")}, MaxLen)}

CancelNext ==
    \/ \E r \in {1} : Admit(r, KeySeq[r][1], KeySeq[r][2])
    \/ \E r \in {1} : pc[r] = "decode" /\ \E body \in CancelBodies : Decode(r, body)
    \/ \E r \in {1} : CancelRequest(r)
    \/ \E r \in {1} : LeaderStep(r)
    \/ \E room \in Rooms : WorkerStep(room)

CancelSpec == Init /\ [][CancelNext]_vars

\* Calls that contend for one key, with transactions in which events and EDUs fail
StatusBodies ==
    {NotJSONBody,
     mkTxn(<<>>, ManyEDUs(MaxEDUs + 1)),
     mkTxn(<<mkPDU("rsfail", "!r1", "$a"), mkPDU("badjson", "!r1", "$b")>>, <<>>),
     mkTxn(<<mkPDU("banned", "!r1", "$a"), mkPDU("sigfail", "!r1", "$b"),
             mkPDU("notallowed", "!r2", "$a"), mkPDU("rsfail", "!r2", "$b")>>,
           <<mkEDU("m.typing", TRUE, <<>>),
             mkEDU("m.device_list_update", FALSE, <<mkUser("a.example", TRUE)>>)>>)}

StatusNext ==
    \/ \E r \in Reqs : Admit(r, KeySeq[1][1], KeySeq[1][2])
    \/ \E r \in Reqs : pc[r] = "decode" /\ \E body \in StatusBodies : Decode(r, body)
    \/ \E r \in Reqs : LeaderStep(r)
    \/ \E r \in Reqs : FollowerStep(r)
    \/ \E room \in Rooms : WorkerStep(room)

StatusSpec == Init /\ [][StatusNext]_vars

\* One transaction whose events follow each other into the queue of one room,
\* under fair scheduling
RescuePDUs ==
    {mkPDU("ok", "!r1", "$a"), mkPDU("rsfail", "!r1", "$b"), mkPDU("sigfail", "!r1", "$a")}

RescueBodies ==
    {mkTxn(<<mkPDU("ok", "!r1", "$a")>>, <<TypingEDU>>)}
    \cup {mkTxn(ps, <<>>) : ps \in SeqsUpTo(RescuePDUs, MaxLen)}

RescueNext ==
    \/ \E r \in {1} : Admit(r, KeySeq[r][1], KeySeq[r][2])
    \/ \E r \in {1} : pc[r] = "decode" /\ \E body \in RescueBodies : Decode(r, body)
    \/ \E r \in {1} : LeaderStep(r)
    \/ \E room \in Rooms : WorkerStep(room)

RescueSpec ==
    /\ Init /\ [][RescueNext]_vars
    /\ \A r \in {1} : WF_vars((\E body \in RescueBodies : Decode(r, body)) \/ LeaderStep(r))
    /\ \A room \in Rooms : WF_vars(WorkerStep(room))

\* Requests to the endpoints of the internal API, of both makes
APINext ==
    \/ \E c \in APICalls, body \in APIBodies, out \in APIOutcomes : ServeRPC(c, body, out)
    \/ \E c \in APICalls, body \in APIBodies, out \in APIOutcomes : ServeProxy(c, body, out)

APISpec == Init /\ [][APINext]_vars

\* One transaction that is refused, in each way there is, or that is not: its
\* EDUs come with a bad PDU at each place of the list, or with no bad PDU
AbortPDUs ==
    {mkPDU("ok", "!r1", "$a"), mkPDU("badjson", "!r1", "$b"), mkPDU("sigfail", "!r1", "$b")}

AbortBodies ==
    {NotJSONBody,
     mkTxn(<<>>, ManyEDUs(MaxEDUs + 1)),
     mkTxn(ManyPDUs(MaxPDUs + 1), <<TypingEDU>>)}
    \cup {mkTxn(ps, <<TypingEDU, mkEDU("m.device_list_update", FALSE, <<>>)>>) :
            ps \in SeqsUpTo(AbortPDUs, MaxLen)}

AbortNext ==
    \/ \E r \in {1} : Admit(r, KeySeq[r][1], KeySeq[r][2])
    \/ \E r \in {1} : pc[r] = "decode" /\ \E body \in AbortBodies : Decode(r, body)
    \/ \E r \in {1} : LeaderStep(r)
    \/ \E room \in Rooms : WorkerStep(room)

AbortSpec == Init /\ [][AbortNext]_vars

(***************************************************************************)
(* Properties                                                              *)
(***************************************************************************)
SeqToSet(s) == {s[k] : k \in 1..Len(s)}

IsPrefix(s, u) == Len(s) <= Len(u) /\ \A k \in 1..Len(s) : s[k] = u[k]

Admitted(r) == pc[r] # "idle"

Follower(r) == Admitted(r) /\ ~leader[r]

\* a leader whose registry entry has not been deleted by it yet
ActiveLeader(r) ==
    leader[r] /\ pc[r] \in {"decode", "pdus", "push", "cas", "edus", "wait", "send", "delete"}

IndexOf(r) == Index(origin[r], txnID[r])

\* whether the call has entered processTransaction
RanProcessTransaction(r) == i[r] >= 1

\* the leader has sent its response on its channel
Published(r) == leader[r] /\ res[r].Code = StatusOK /\ pc[r] \in {"delete", "close", "done"}

\* C1: among the calls of one (origin, txnID) that arrive while the entry of the
\* first is in the registry, exactly one is the leader, and only the leader can run
\* processTransaction; each other call is a follower, which runs nothing and
\* returns the response of its leader, 408 or 202.
C1_OneLeader ==
    /\ \A r1, r2 \in Reqs :
          (r1 # r2 /\ ActiveLeader(r1) /\ ActiveLeader(r2)) => IndexOf(r1) # IndexOf(r2)
    /\ \A index \in DOMAIN inFlightTxnsPerOrigin :
          LET l == inFlightTxnsPerOrigin[index]
          IN ActiveLeader(l) /\ IndexOf(l) = index
    /\ \A r \in Reqs : RanProcessTransaction(r) => leader[r]
    /\ \A r \in Reqs : Follower(r) =>
          /\ ch[r] # r /\ leader[ch[r]] /\ IndexOf(ch[r]) = IndexOf(r)
          /\ ~RanProcessTransaction(r) /\ tasks[r] = <<>> /\ calls[r] = {}
          /\ pc[r] = "done" =>
                \/ res[r].Code \in {StatusRequestTimeout, StatusAccepted}
                \/ res[r] = res[ch[r]] /\ Published(ch[r])

\* C1 witness: a leader has run processTransaction and two followers of it have
\* returned, one with the response of the leader
C1_Witness ==
    \E l, f1, f2 \in Reqs :
        /\ f1 # f2 /\ Follower(f1) /\ Follower(f2) /\ ch[f1] = l /\ ch[f2] = l
        /\ RanProcessTransaction(l)
        /\ pc[f1] = "done" /\ pc[f2] = "done"
        /\ res[f1] = res[l] /\ res[f1].Code = StatusOK

\* C2 (as claimed): every follower of a leader that has published its response,
\* unless it timed out, returns that response
C2_EveryFollowerGetsResponse ==
    \A f \in Reqs :
        (/\ Follower(f) /\ pc[f] = "done"
         /\ res[f].Code # StatusRequestTimeout
         /\ Published(ch[f]))
        => res[f] = res[ch[f]]

\* C3: a leader that ends with a 400 (the body is not JSON, it is too large, or a
\* PDU is bad JSON) sends nothing on its channel and closes it,
\* and each follower of it that does not time out returns 202
C3_AbortGives202 ==
    /\ \A l \in Reqs : (leader[l] /\ res[l].Code = StatusBadRequest) =>
          /\ chans[l].buf = <<>>
          /\ pc[l] = "done" => chans[l].closed
    /\ \A f \in Reqs :
          (/\ Follower(f) /\ pc[f] = "done"
           /\ res[f].Code # StatusRequestTimeout
           /\ res[ch[f]].Code = StatusBadRequest)
          => res[f] = JSONResponse(StatusAccepted, "nil", <<>>)

\* C3 witness: two followers of a leader whose PDU was bad JSON have returned 202
C3_Witness ==
    \E f1, f2 \in Reqs :
        /\ f1 # f2 /\ ch[f1] = ch[f2]
        /\ Follower(f1) /\ pc[f1] = "done"
        /\ Follower(f2) /\ pc[f2] = "done"
        /\ res[ch[f1]] = BadPDUResponse
        /\ res[f1].Code = StatusAccepted
        /\ res[f2].Code = StatusAccepted

\* C4: in every room the tasks are completed (wg.Done) in the order of their push:
\* the completed tasks are always a prefix of the pushed ones
C4_FIFO ==
    \A room \in Rooms : IsPrefix(completed[room], pushed[room])

\* C4 witness: tasks of two transactions were pushed alternately on a room and
\* three of them are completed
C4_Witness ==
    \E room \in Rooms :
        /\ Len(completed[room]) >= 3
        /\ pushed[room][1][1] # pushed[room][2][1]
        /\ pushed[room][2][1] # pushed[room][3][1]

\* a room never has more than one goroutine in run, and has one only while
\* running is set
C5_OneWorkerState ==
    \A room \in Rooms :
        /\ Len(goroutines[room]) <= 1
        /\ Len(goroutines[room]) = 1 => (room \in DOMAIN inputWorkers /\ inputWorkers[room].running)

\* a goroutine is added only by a step that takes running from false to true
C5_SpawnByCAS ==
    \A room \in Rooms :
        Len(goroutines'[room]) > Len(goroutines[room]) =>
            /\ room \in DOMAIN inputWorkers
            /\ ~inputWorkers[room].running
            /\ inputWorkers'[room].running

\* C5: both hold throughout: at most one worker goroutine per room, spawned only
\* by the compare-and-set of running from false to true
C5_OneWorker == []C5_OneWorkerState /\ [][C5_SpawnByCAS]_vars

\* C5 witness: a worker is running in a room while another transaction has
\* pushed a task on that room and is about to try the compare-and-set
C5_Witness ==
    \E r \in Reqs, room \in Rooms :
        /\ pc[r] = "cas" /\ txnEvents[r].pdus[i[r]].room_id = room
        /\ Len(goroutines[room]) = 1
        /\ goroutines[room][1].pc = "task"
        /\ goroutines[room][1].task[1] # r

TaskRoom(p) == tasks[p[1]][p[2]].event.room_id

\* C6: a leader whose response is a 200 has no task left: each task of it has
\* signalled, none is in a queue or in the hands of a worker
C6_OKAfterTasks ==
    \A r \in Reqs : (leader[r] /\ res[r].Code = StatusOK) =>
        /\ wg[r] = 0
        /\ \A k \in 1..Len(tasks[r]) :
              LET p == <<r, k>>
                  room == TaskRoom(p)
              IN /\ p \in SeqToSet(completed[room])
                 /\ p \notin SeqToSet(inputWorkers[room].input.tasks)
                 /\ \A g \in 1..Len(goroutines[room]) : goroutines[room][g].task # p

\* C6 witness: a leader with two tasks has returned its 200
C6_Witness ==
    \E r \in Reqs : leader[r] /\ res[r].Code = StatusOK /\ Len(tasks[r]) >= 2 /\ pc[r] = "done"

\* C7 (as claimed): a call admitted as leader eventually returns
C7_LeaderReturns ==
    \A r \in Reqs : (leader[r] /\ pc[r] # "done") ~> (pc[r] = "done")

Decoded(r) == leader[r] /\ pc[r] # "decode" /\ txnEvents[r].json

\* C8: a transaction of more than 50 PDUs or more than 100 EDUs gets a 400 and
\* nothing of it is handled: no PDU enters the loop, no task is pushed, no EDU is
\* dispatched, nothing is called downstream; a transaction within both limits
\* never gets the 400 of the size check
C8_SizeLimit ==
    \A r \in Reqs : Decoded(r) =>
        LET np == Len(txnEvents[r].pdus)
            ne == Len(txnEvents[r].edus)
        IN /\ (np > 50 \/ ne > 100) =>
                 /\ res[r].Code = StatusBadRequest
                 /\ ~RanProcessTransaction(r)
                 /\ tasks[r] = <<>> /\ wg[r] = 0
                 /\ calls[r] = {}
                 /\ \A c \in eduCalls : c[1] # r
                 /\ \A room \in Rooms : \A k \in 1..Len(pushed[room]) : pushed[room][k][1] # r
           /\ (np <= 50 /\ ne <= 100) =>
                 /\ res[r] # TooLargeResponse
                 /\ pc[r] = "done" => res[r].Code = StatusOK

\* C8 witness: a transaction of 50 PDUs and 101 EDUs has been answered
C8_Witness ==
    \E r \in Reqs :
        /\ pc[r] = "done" /\ txnEvents[r].json
        /\ Len(txnEvents[r].pdus) = 50 /\ Len(txnEvents[r].edus) = 101
        /\ res[r] = TooLargeResponse

\* C8 witness of the other side: a transaction of exactly 50 PDUs and 100 EDUs
\* has been answered with 200
C8_WitnessAtLimit ==
    \E r \in Reqs :
        /\ pc[r] = "done"
        /\ Len(txnEvents[r].pdus) = 50 /\ Len(txnEvents[r].edus) = 100
        /\ res[r].Code = StatusOK

\* the event IDs of the PDUs of the list that were parsed
ParsedIDs(r) ==
    {txnEvents[r].pdus[k].event_id :
        k \in {n \in 1..Len(txnEvents[r].pdus) : txnEvents[r].pdus[n].kind \in ParsedKinds}}

Answered200(r) == leader[r] /\ res[r].Code = StatusOK

\* C9: the keys of the pdus map of a 200 are event IDs of PDUs that were parsed,
\* and every parsed PDU has its key there: a PDU that is skipped adds no key and
\* does not stop the PDUs after it
C9_KeysAreParsedIDs ==
    \A r \in Reqs : Answered200(r) =>
        /\ DOMAIN res[r].JSON.pdus \subseteq ParsedIDs(r)
        /\ ParsedIDs(r) \subseteq DOMAIN res[r].JSON.pdus

\* C9 witness: a 200 for a list whose first PDU was skipped and whose second was
\* queued under another event ID
C9_Witness ==
    \E r \in Reqs :
        /\ Answered200(r) /\ pc[r] = "done"
        /\ Len(txnEvents[r].pdus) = 3
        /\ txnEvents[r].pdus[1].kind = "peekfail"
        /\ txnEvents[r].pdus[2].kind = "verfail"
        /\ txnEvents[r].pdus[3].kind = "ok"
        /\ txnEvents[r].pdus[1].event_id # txnEvents[r].pdus[3].event_id
        /\ DOMAIN res[r].JSON.pdus = {txnEvents[r].pdus[3].event_id}

\* PDU number k of the list of r is banned by the ACL of its room
Banned(r, k) == txnEvents[r].pdus[k].kind = "banned"

\* the banned PDU number k never became a task and never reached the roomserver
NeverEnqueued(r, k) ==
    /\ \A n \in 1..Len(tasks[r]) : tasks[r][n].n # k
    /\ \A p \in rsCalls : p[1] = r => tasks[r][p[2]].n # k

\* another PDU of the list replaces the result of PDU k under the same event ID:
\* one that is queued (anywhere in the list) or a later one whose signature fails
Replaced(r, k) ==
    \E n \in 1..Len(txnEvents[r].pdus) :
        /\ n # k
        /\ txnEvents[r].pdus[n].event_id = txnEvents[r].pdus[k].event_id
        /\ \/ txnEvents[r].pdus[n].kind \in TaskKinds
           \/ txnEvents[r].pdus[n].kind = "sigfail" /\ n > k

HasACLError(r, k) ==
    LET id == txnEvents[r].pdus[k].event_id
    IN id \in DOMAIN res[r].JSON.pdus /\ res[r].JSON.pdus[id] = PDUResult(ACLError)

\* C10 (as claimed): in a 200, every banned PDU has the ACL error under its event
\* ID, and it was never queued nor submitted
C10_BannedResult ==
    \A r \in Reqs : Answered200(r) =>
        \A k \in 1..Len(txnEvents[r].pdus) : Banned(r, k) =>
            HasACLError(r, k) /\ NeverEnqueued(r, k)

\* C10 (amended): a banned PDU is never queued nor submitted, and in a 200 it has
\* the ACL error under its event ID unless another PDU of the list replaces it
C10_BannedResultUnlessReplaced ==
    \A r \in Reqs : Decoded(r) =>
        \A k \in 1..Len(txnEvents[r].pdus) : Banned(r, k) =>
            /\ NeverEnqueued(r, k)
            /\ (Answered200(r) /\ ~Replaced(r, k)) => HasACLError(r, k)

\* C10 witness: a 200 for a list of a banned PDU, a skipped one and a queued one
\* with another event ID
C10_Witness ==
    \E r \in Reqs :
        /\ Answered200(r) /\ pc[r] = "done"
        /\ Len(txnEvents[r].pdus) = 3
        /\ Banned(r, 1) /\ HasACLError(r, 1) /\ ~Replaced(r, 1)
        /\ txnEvents[r].pdus[3].kind = "ok"
        /\ Len(tasks[r]) = 1 /\ rsCalls = {<<r, 1>>}

\* the signature of PDU number k of the list of r fails verification
SigFailed(r, k) == txnEvents[r].pdus[k].kind = "sigfail"

\* another PDU of the list with the same event ID is queued as a task
Requeued(r, k) ==
    \E n \in 1..Len(txnEvents[r].pdus) :
        /\ n # k
        /\ txnEvents[r].pdus[n].event_id = txnEvents[r].pdus[k].event_id
        /\ txnEvents[r].pdus[n].kind \in TaskKinds

HasError(r, k) ==
    LET id == txnEvents[r].pdus[k].event_id
    IN id \in DOMAIN res[r].JSON.pdus /\ res[r].JSON.pdus[id].Error # ""

\* C11 (as claimed): in a 200, every PDU whose signature failed has a non-empty
\* error under its event ID, whatever else the transaction carries, and it was
\* never submitted to the roomserver
C11_SigFailResult ==
    \A r \in Reqs : Answered200(r) =>
        \A k \in 1..Len(txnEvents[r].pdus) : SigFailed(r, k) =>
            HasError(r, k) /\ NeverEnqueued(r, k)

\* C11 (amended): a PDU whose signature failed is never queued nor submitted, and
\* in a 200 the entry under its event ID has a non-empty error exactly when no
\* other PDU of the list with the same event ID was queued as a task
C11_SigFailResultUnlessQueued ==
    \A r \in Reqs : Decoded(r) =>
        \A k \in 1..Len(txnEvents[r].pdus) : SigFailed(r, k) =>
            /\ NeverEnqueued(r, k)
            /\ Answered200(r) => (HasError(r, k) <=> ~Requeued(r, k))

\* C11 witness: a 200 for a list of a PDU whose signature failed, a banned one
\* with the same event ID before it, and a queued one with another event ID
C11_Witness ==
    \E r \in Reqs :
        /\ Answered200(r) /\ pc[r] = "done"
        /\ Len(txnEvents[r].pdus) = 3
        /\ Banned(r, 1) /\ SigFailed(r, 2) /\ txnEvents[r].pdus[3].kind = "rsfail"
        /\ txnEvents[r].pdus[1].event_id = txnEvents[r].pdus[2].event_id
        /\ txnEvents[r].pdus[3].event_id # txnEvents[r].pdus[2].event_id
        /\ res[r].JSON.pdus[txnEvents[r].pdus[2].event_id] = PDUResult(SigError)
        /\ rsCalls = {<<r, 1>>}

\* the leader has ended with the 400 of a PDU that is bad JSON
AbortedBadJSON(r) == leader[r] /\ res[r] = BadPDUResponse

\* C12 (as claimed): of a transaction that is aborted with 400 because a PDU is
\* bad JSON, no PDU is submitted to the roomserver, the ones before the bad one
\* included
C12_NotHalfIngested ==
    \A r \in Reqs : AbortedBadJSON(r) =>
        /\ res[r].Code = StatusBadRequest
        /\ \A p \in rsCalls : p[1] # r

\* EDU number n of the list of r, and whether the loop has dealt with it
EDUOf(r, n) == txnEvents[r].edus[n]

Visited(r, n) == n \in SeqToSet(visited[r])

\* user number u of EDU number n of r is of the server the transaction comes from
FromOrigin(r, n, u) == EDUOf(r, n).users[u].domain = origin[r]

DomainChecked == {"SendTyping", "InputReceiptEvent"}

\* C14: no call of the EDU server is made for a typing EDU or for an entry of a
\* receipt whose user is of another server than the origin of the transaction,
\* and for every such EDU that is well-formed and was visited, the call for each
\* user of the origin is made
C14_ForeignSenderDropped ==
    /\ \A c \in eduCalls : c[4] \in DomainChecked => FromOrigin(c[1], c[2], c[3])
    /\ \A r \in Reqs : \A n \in 1..Len(txnEvents[r].edus) :
          (Visited(r, n) /\ ~EDUOf(r, n).malformed) =>
              /\ EDUOf(r, n).type = "m.typing" =>
                    (FromOrigin(r, n, 1) => <<r, n, 1, "SendTyping">> \in eduCalls)
              /\ EDUOf(r, n).type = "m.receipt" =>
                    \A u \in 1..Len(EDUOf(r, n).users) :
                        FromOrigin(r, n, u) => <<r, n, u, "InputReceiptEvent">> \in eduCalls

\* C14 witness: a transaction of a typing EDU of another server, then a receipt
\* with an entry of another server and an entry of the origin, has been
\* dispatched: the only call made is the one for the entry of the origin
C14_Witness ==
    \E r \in Reqs :
        /\ pc[r] = "done" /\ Len(txnEvents[r].edus) = 2
        /\ EDUOf(r, 1).type = "m.typing" /\ ~EDUOf(r, 1).malformed /\ ~FromOrigin(r, 1, 1)
        /\ EDUOf(r, 2).type = "m.receipt" /\ ~EDUOf(r, 2).malformed
        /\ ~FromOrigin(r, 2, 1) /\ FromOrigin(r, 2, 2)
        /\ eduCalls = {<<r, 2, 2, "InputReceiptEvent">>}

\* 1, 2, ..., n
UpTo(n) == [k \in 1..n |-> k]

\* the payload of EDU number n of r is malformed, or a call made for it fails
EDUFails(r, n) ==
    EDUOf(r, n).malformed \/ FailedCalls(r, n, EDUOf(r, n), origin[r]) # {}

NoBadPDU(r) == \A k \in 1..Len(txnEvents[r].pdus) : txnEvents[r].pdus[k].kind # "badjson"

\* processEDUs of call r has returned
EDUsDone(r) == RanProcessTransaction(r) /\ pc[r] \in {"wait", "send", "delete", "close", "done"}

\* C15: the EDUs are visited in list order, each once, whatever fails: what was
\* visited is always a beginning of 1, 2, ..., and it is the whole list once
\* processEDUs has returned; the transaction then ends with 200 and the results
\* of its PDUs, as it does without the EDUs
C15_EveryEDUVisited ==
    \A r \in Reqs : (Decoded(r) /\ NoBadPDU(r) /\ ~TooLarge(txnEvents[r])) =>
        /\ IsPrefix(visited[r], UpTo(Len(txnEvents[r].edus)))
        /\ EDUsDone(r) => visited[r] = UpTo(Len(txnEvents[r].edus))
        /\ pc[r] = "done" =>
              /\ res[r].Code = StatusOK
              /\ DOMAIN res[r].JSON.pdus = ParsedIDs(r)

\* C15 witness: a transaction of three EDUs has returned 200: the first was
\* malformed, a call of the second failed, and the call of the third was made
C15_Witness ==
    \E r \in Reqs :
        /\ pc[r] = "done" /\ res[r].Code = StatusOK
        /\ Len(txnEvents[r].edus) = 3 /\ visited[r] = <<1, 2, 3>>
        /\ EDUOf(r, 1).malformed
        /\ ~EDUOf(r, 2).malformed /\ EDUFails(r, 2)
        /\ ~EDUFails(r, 3)
        /\ \E c \in eduCalls : c[1] = r /\ c[2] = 3

SendCodes == {StatusOK, StatusAccepted, StatusBadRequest, StatusRequestTimeout}

\* a task of call r ended with an error of the roomserver
SomeTaskFailed(r) == \E k \in 1..Len(tasks[r]) : tasks[r][k].err # "nil"

\* C13: a call of Send returns 200, 202, 400 or 408 and nothing else; a leader
\* whose body is JSON, within the limits and without a PDU of bad JSON returns
\* 200 whatever becomes of its PDUs and EDUs
C13_StatusCodes ==
    \A r \in Reqs :
        /\ res[r] # NoRes => res[r].Code \in SendCodes
        /\ pc[r] = "done" => res[r].Code \in SendCodes
        /\ (pc[r] = "done" /\ Decoded(r) /\ NoBadPDU(r) /\ ~TooLarge(txnEvents[r]))
              => res[r].Code = StatusOK

\* C13 witness: a leader has returned 200 for a transaction with a banned PDU, one
\* whose signature failed, one the roomserver rejected, one it failed on, a
\* malformed EDU and an EDU whose call failed, and a follower of it returned 408
C13_Witness ==
    \E l, f \in Reqs :
        /\ leader[l] /\ pc[l] = "done" /\ res[l].Code = StatusOK
        /\ Len(txnEvents[l].pdus) = 4 /\ Banned(l, 1) /\ SigFailed(l, 2)
        /\ Len(tasks[l]) = 2 /\ SomeTaskFailed(l) /\ rsCalls = {<<l, 1>>, <<l, 2>>}
        /\ EDUFails(l, 1) /\ EDUFails(l, 2)
        /\ Follower(f) /\ ch[f] = l /\ pc[f] = "done"
        /\ res[f].Code = StatusRequestTimeout

\* call r has pushed a task on the room and has not tried the compare-and-set yet
PendingCAS(r, room) == pc[r] = "cas" /\ txnEvents[r].pdus[i[r]].room_id = room

\* the worker of the room has found the queue empty and has not reset running yet
WorkerLeaving(room) ==
    \E g \in 1..Len(goroutines[room]) : goroutines[room][g].pc = "exit"

\* tasks wait in the queue of the room, running is false, no goroutine is in run
\* and no call is about to try the compare-and-set
Stranded(room) ==
    /\ room \in DOMAIN inputWorkers
    /\ inputWorkers[room].input.count > 0
    /\ ~inputWorkers[room].running
    /\ goroutines[room] = <<>>
    /\ \A r \in Reqs : ~PendingCAS(r, room)

\* a producer whose task is in the queue of a worker that is leaving (it was
\* pushed after the pop that found the queue empty) tries the compare-and-set: it
\* fails, running stays set and no goroutine is started
C16_CASFailsInRace ==
    \A room \in Rooms : \A r \in Reqs :
        (/\ WorkerLeaving(room) /\ PendingCAS(r, room)
         /\ inputWorkers[room].input.count > 0
         /\ pc'[r] # "cas") =>
            /\ goroutines'[room] = goroutines[room]
            /\ inputWorkers'[room].running
            /\ inputWorkers'[room].input.count > 0

\* the worker that is leaving resets running while tasks wait and no producer is
\* about to try the compare-and-set: the tasks are left without a worker
C16_ExitStrands ==
    \A room \in Rooms :
        (/\ WorkerLeaving(room) /\ goroutines'[room] = <<>>
         /\ inputWorkers[room].input.count > 0
         /\ \A r \in Reqs : ~PendingCAS(r, room))
        => Stranded(room)'

\* C16: a producer that pushes between the pop that found the queue empty and the
\* reset of running fails its compare-and-set and starts no worker, and the reset
\* then leaves the queue non-empty with no worker running (a state that is
\* reached: C16_Witness)
C16_Hazard == [][C16_CASFailsInRace /\ C16_ExitStrands]_vars

\* C16 witness: a task waits in the queue of a room that has no worker, while the
\* call that pushed it has failed its compare-and-set and waits in wg.Wait
C16_Witness ==
    \E room \in Rooms : \E r \in Reqs :
        /\ Stranded(room)
        /\ pc[r] = "wait" /\ wg[r] > 0
        /\ \E k \in 1..Len(inputWorkers[room].input.tasks) :
              inputWorkers[room].input.tasks[k][1] = r

\* task p waits in the queue of the room
Queued(p, room) ==
    room \in DOMAIN inputWorkers /\ p \in SeqToSet(inputWorkers[room].input.tasks)

\* the room has a worker and no goroutine is in its run: none was started yet, or
\* the one that was has returned
NoWorker(room) == room \in DOMAIN inputWorkers /\ goroutines[room] = <<>>

\* the compare-and-set that followed the push of task p has been tried
CASTried(p) == ~(pc[p[1]] = "cas" /\ p[2] = Len(tasks[p[1]]))

\* task p was left in the queue by the worker that exited, and another task has
\* been pushed on the room since
StrandedThenEnqueued(p, room) ==
    /\ Queued(p, room) /\ CASTried(p) /\ NoWorker(room)
    /\ \E r \in Reqs : PendingCAS(r, room)

\* a compare-and-set tried after the worker has reset running succeeds and starts
\* a goroutine
C17_CASAfterReset ==
    \A room \in Rooms : \A r \in Reqs :
        (NoWorker(room) /\ PendingCAS(r, room) /\ pc'[r] # "cas") =>
            /\ inputWorkers'[room].running
            /\ Len(goroutines'[room]) = 1

\* a task that was left in the queue is completed once a later push has happened,
\* and before the tasks pushed after it
C17_RescuedByNextEnqueue ==
    \A room \in Rooms : \A r \in Reqs : \A k \in 1..MaxLen :
        StrandedThenEnqueued(<<r, k>>, room) ~> (<<r, k>> \in SeqToSet(completed[room]))

\* C17: after the worker has reset running, the compare-and-set of the next
\* enqueue succeeds and starts a worker; every task then in the queue, the ones
\* left by the race included, is completed, in the order of the pushes; so a task
\* stays in the queue for ever only if no later enqueue happens
C17_NextEnqueueRescues ==
    /\ [][C17_CASAfterReset]_vars
    /\ C17_RescuedByNextEnqueue
    /\ [](\A room \in Rooms : IsPrefix(completed[room], pushed[room]))

\* C17 witness: the second task of a call is in the queue of a room without a
\* worker, its compare-and-set has failed, and the call has pushed its third task
\* behind it
C17_Witness ==
    \E room \in Rooms : \E r \in Reqs :
        /\ StrandedThenEnqueued(<<r, 2>>, room)
        /\ ~inputWorkers[room].running
        /\ completed[room] = <<<<r, 1>>>>
        /\ inputWorkers[room].input.tasks = <<<<r, 2>>, <<r, 3>>>>

\* the registry holds the entry that leader r stored
HoldsEntry(r) ==
    IndexOf(r) \in DOMAIN inFlightTxnsPerOrigin /\ inFlightTxnsPerOrigin[IndexOf(r)] = r

\* C18 (as claimed): a leader closes its channel first and deletes its entry
\* afterwards: once its entry is gone, its channel is closed
C18_CloseThenDelete ==
    \A r \in Reqs : (leader[r] /\ ~HoldsEntry(r)) => chans[r].closed

\* C18 (amended): a leader deletes its entry first and closes its channel
\* afterwards, on every exit path: a channel that is closed has no entry any more,
\* and a leader that has returned has done both
C18_DeleteThenClose ==
    \A r \in Reqs : leader[r] =>
        /\ chans[r].closed => ~HoldsEntry(r)
        /\ pc[r] = "close" => (~HoldsEntry(r) /\ ~chans[r].closed)
        /\ pc[r] = "done" => (~HoldsEntry(r) /\ chans[r].closed)

\* C18 witness: a leader that aborted with 400 and a leader that sent its 200
\* have both deleted their entries, and neither has closed its channel yet
C18_Witness ==
    \E r1, r2 \in Reqs :
        /\ leader[r1] /\ pc[r1] = "close" /\ res[r1].Code = StatusBadRequest
        /\ leader[r2] /\ pc[r2] = "close" /\ res[r2].Code = StatusOK
        /\ chans[r2].buf # <<>>
        /\ ~HoldsEntry(r1) /\ ~chans[r1].closed
        /\ ~HoldsEntry(r2) /\ ~chans[r2].closed

\* the registry holds an entry exactly for the keys of the leaders that have not
\* started to return, and the entry of a key is the channel of that leader
C19_EntryWhileLeaderRuns ==
    /\ \A r \in Reqs : leader[r] =>
          /\ pc[r] \in {"decode", "pdus", "push", "cas", "edus", "wait", "send", "delete"} => HoldsEntry(r)
          /\ pc[r] \in {"close", "done"} => ~HoldsEntry(r)
    /\ \A index \in DOMAIN inFlightTxnsPerOrigin :
          LET l == inFlightTxnsPerOrigin[index]
          IN leader[l] /\ IndexOf(l) = index /\ pc[l] \notin {"close", "done"}

\* a follower that returns leaves the registry as it is
C19_FollowerKeepsEntry ==
    \A r \in Reqs :
        (pc[r] = "follow" /\ pc'[r] = "done") =>
            inFlightTxnsPerOrigin' = inFlightTxnsPerOrigin

\* a call that arrives is a leader exactly when the registry has no entry for its
\* key, which is so when every earlier leader of the key has returned
C19_NewLeaderAfterReturn ==
    \A r \in Reqs :
        (pc[r] = "idle" /\ pc'[r] # "idle") =>
            /\ leader'[r] <=> Index(origin'[r], txnID'[r]) \notin DOMAIN inFlightTxnsPerOrigin
            /\ (\A q \in Reqs :
                    (leader[q] /\ IndexOf(q) = Index(origin'[r], txnID'[r])) => pc[q] = "done")
                 => (leader'[r] /\ inFlightTxnsPerOrigin'[Index(origin'[r], txnID'[r])] = r)

\* C19: the entry of a key is in the registry from the admission of its leader
\* until the leader returns; no exit of a follower deletes or replaces it; a call
\* with the key that arrives after the leader has returned becomes a new leader
C19_KeyLifetime ==
    /\ []C19_EntryWhileLeaderRuns
    /\ [][C19_FollowerKeepsEntry /\ C19_NewLeaderAfterReturn]_vars

\* C19 witness: a follower has returned 408 while its leader still held the entry
\* and went on to its 200, and after the leader has returned a call with the same
\* key has been admitted as a new leader
C19_Witness ==
    \E l, f, n \in Reqs :
        /\ leader[l] /\ pc[l] = "done" /\ res[l].Code = StatusOK
        /\ Follower(f) /\ ch[f] = l /\ pc[f] = "done" /\ res[f].Code = StatusRequestTimeout
        /\ n # l /\ leader[n] /\ IndexOf(n) = IndexOf(l) /\ HoldsEntry(n)

\* the task the goroutine holds once the function literal of run is through
HeldTask(room, g) == tasks[goroutines[room][g].task[1]][goroutines[room][g].task[2]]

\* goroutine g of the room has dealt with a task whose caller had gone (its
\* request context was cancelled) when the task was popped
DealtWithGone(room, g) ==
    /\ g \in 1..Len(goroutines[room])
    /\ goroutines[room][g].pc = "wgdone"
    /\ goroutines[room][g].gone

\* C20: a task whose caller had gone (its request context was cancelled) when the
\* worker popped it ends with the deadline-exceeded error and is not submitted to
\* the roomserver
C20_GoneCallerExpires ==
    \A room \in Rooms : \A g \in 1..MaxGoroutines :
        DealtWithGone(room, g) =>
            /\ HeldTask(room, g).err = "DeadlineExceeded"
            /\ goroutines[room][g].task \notin rsCalls

\* the tasks that exist: <<call, number>>
TaskIDs == {<<r, k>> : r \in Reqs, k \in 1..MaxLen} \cap
           UNION {{<<r, k>> : k \in 1..Len(tasks[r])} : r \in Reqs}

\* the goroutines that hold task p after its fields were written
Writers(p) ==
    {<<room, g>> : room \in Rooms, g \in 1..MaxGoroutines} \cap
    UNION {{<<room, g>> : g \in {h \in 1..Len(goroutines[room]) :
                                    /\ goroutines[room][h].pc = "wgdone"
                                    /\ goroutines[room][h].task = p}} : room \in Rooms}

Signalled(p) == p \in SeqToSet(completed[TaskRoom(p)])

\* the fields of a task are written at most once, by a goroutine of the worker of
\* its room, which then holds the task or has signalled for it; a task that has
\* signalled has been written
C21_WrittenOnceBeforeDone ==
    \A p \in TaskIDs :
        LET task == tasks[p[1]][p[2]]
        IN /\ task.written <= 1
           /\ task.written = 1 =>
                 \/ Signalled(p) /\ Writers(p) = {}
                 \/ /\ ~Signalled(p) /\ Cardinality(Writers(p)) = 1
                    /\ \A w \in Writers(p) : w[1] = TaskRoom(p)
           /\ task.written = 0 => (~Signalled(p) /\ Writers(p) = {})

\* the leader reads the fields of its tasks (the loop after wg.Wait) only when all
\* of them have signalled, and a task that has signalled is not written again
C21_ReadAfterAllDone ==
    /\ \A r \in Reqs : (pc[r] = "wait" /\ pc'[r] # "wait") =>
          \A k \in 1..Len(tasks[r]) : Signalled(<<r, k>>) /\ tasks[r][k].written = 1
    /\ \A p \in TaskIDs : Signalled(p) => tasks'[p[1]][p[2]] = tasks[p[1]][p[2]]

\* C21: err and duration of a task are written by one worker, the one of the room
\* of the task, the one time the task is popped, before the task signals
\* completion; the leader reads them only after all its tasks have signalled
C21_TaskFieldsOwnership == []C21_WrittenOnceBeforeDone /\ [][C21_ReadAfterAllDone]_vars

\* C21 witness: two leaders have read the fields of their tasks, four tasks in
\* all, which the worker of one room wrote, one of them with an error
C21_Witness ==
    \E r1, r2 \in Reqs :
        /\ r1 # r2 /\ pc[r1] = "send" /\ pc[r2] = "send"
        /\ Len(tasks[r1]) = 2 /\ Len(tasks[r2]) = 2
        /\ \A p \in TaskIDs : tasks[p[1]][p[2]].written = 1 /\ TaskRoom(p) = "!r1"
        /\ tasks[r1][2].err = "error"
        /\ Len(completed["!r1"]) = 4

\* the error the loop body records for a PDU of this kind that is not queued
LoopError(kind) == IF kind = "banned" THEN ACLError ELSE SigError

\* C22: in a 200 the entry of every PDU that was queued as a task is the empty
\* record, whatever the task ended with; an entry with an error string belongs to
\* a PDU that failed the ACL check or the signature verification
C22_TaskResultsEmpty ==
    \A r \in Reqs : Answered200(r) =>
        LET m == res[r].JSON.pdus
            pdus == txnEvents[r].pdus
        IN /\ \A n \in 1..Len(tasks[r]) :
                 /\ tasks[r][n].event.event_id \in DOMAIN m
                 /\ m[tasks[r][n].event.event_id] = PDUResult("")
           /\ \A id \in DOMAIN m : m[id].Error # "" =>
                 \E k \in 1..Len(pdus) :
                     /\ pdus[k].event_id = id
                     /\ pdus[k].kind \in {"banned", "sigfail"}
                     /\ m[id].Error = LoopError(pdus[k].kind)

\* C22 witness: a 200 for a task that failed, a PDU that is banned and a task that
\* was not allowed; the entry of the tasks is empty, the one of the banned PDU is not
C22_Witness ==
    \E r \in Reqs :
        /\ Answered200(r) /\ pc[r] = "done"
        /\ Len(txnEvents[r].pdus) = 3 /\ Len(tasks[r]) = 2
        /\ txnEvents[r].pdus[1].kind = "rsfail" /\ tasks[r][1].err = "error"
        /\ Banned(r, 2) /\ HasACLError(r, 2)
        /\ txnEvents[r].pdus[3].kind = "notallowed" /\ tasks[r][2].err = "nil"
        /\ txnEvents[r].pdus[3].event_id = txnEvents[r].pdus[1].event_id
        /\ res[r].JSON.pdus[txnEvents[r].pdus[1].event_id] = PDUResult("")
        /\ <<r, 2>> \in rsCalls

\* the PDUs of the list of r that become tasks
TaskPDUs(r) == {k \in 1..Len(txnEvents[r].pdus) : txnEvents[r].pdus[k].kind \in TaskKinds}

\* the loop over the PDUs of r has handled every PDU of the list
PDULoopDone(r) ==
    /\ i[r] = Len(txnEvents[r].pdus) + 1
    /\ {tasks[r][n].n : n \in 1..Len(tasks[r])} = TaskPDUs(r)

\* C23: in a transaction that is not aborted, no EDU is dispatched before the loop
\* has handled every PDU, every EDU has been dispatched when the leader is at
\* wg.Wait(), and the dispatch of an EDU is never held up by a task of the
\* transaction, queued or left without a worker
C23_EDUsAfterPDUsBeforeWait ==
    \A r \in Reqs : (Decoded(r) /\ NoBadPDU(r) /\ ~TooLarge(txnEvents[r])) =>
        /\ (pc[r] = "edus" \/ visited[r] # <<>> \/ \E c \in eduCalls : c[1] = r)
              => PDULoopDone(r)
        /\ pc[r] = "edus" => ENABLED ProcessEDU(r)
        /\ pc[r] \in {"wait", "send", "delete", "close", "done"}
              => visited[r] = UpTo(Len(txnEvents[r].edus))

\* C23 witness: a leader waits in wg.Wait() with its EDU dispatched while its task
\* is in the queue of a room that has no worker
C23_Witness ==
    \E room \in Rooms : \E r \in Reqs :
        /\ Stranded(room)
        /\ pc[r] = "wait" /\ wg[r] > 0
        /\ Len(txnEvents[r].edus) = 1 /\ visited[r] = <<1>>
        /\ \E c \in eduCalls : c[1] = r
        /\ Queued(<<r, 1>>, room)

\* the request c was served by an endpoint of this make
Served(c, kind) == api[c].pc = "done" /\ api[c].kind = kind

\* the response is the error response for the error err
IsErrorOf(response, err) == response.Code # StatusOK /\ response.JSON = [kind |-> "message", value |-> err.Err]

\* the handler of request c returned an error that holds an error (the error of a
\* Proxy handler that succeeded is not nil, it holds a nil pointer)
HandlerFailed(c) == api[c].ret.err.type # "nil" /\ api[c].ret.err.Err # "<nil>"

\* what the claim says of an endpoint of this make: 400 for a body that does not
\* decode, the error response for the error of the handler, and else a 200 that
\* carries the result of the handler
AnswersLikeRPC(c) ==
    /\ ~api[c].body.json => api[c].response.Code = StatusBadRequest
    /\ (api[c].called /\ HandlerFailed(c)) =>
           IsErrorOf(api[c].response, api[c].ret.err)
    /\ (api[c].called /\ ~HandlerFailed(c)) =>
           api[c].response = APIResponse(StatusOK, "response", api[c].ret.res)

\* C24: an endpoint made by MakeInternalProxyAPI answers as one made by
\* MakeInternalRPCAPI does: 400 when the body does not decode, an error response
\* and no 200 when the handler returns an error, and a 200 with the result of the
\* handler when it succeeds
C24_ProxyLikeRPC == \A c \in APICalls : Served(c, "Proxy") => AnswersLikeRPC(c)

\* the endpoints made by MakeInternalRPCAPI do answer so
RPCAnswers == \A c \in APICalls : Served(c, "RPC") => AnswersLikeRPC(c)

\* a channel never holds more than one value, and a leader that is about to send
\* finds its own channel empty and open
C25_SendFindsRoom ==
    /\ \A c \in Reqs : Len(chans[c].buf) <= 1
    /\ \A r \in Reqs : (leader[r] /\ pc[r] = "send") =>
          /\ ch[r] = r
          /\ chans[r].buf = <<>> /\ ~chans[r].closed

\* a value is put on a channel only by the leader that made it, by its one send,
\* on the open channel; a channel that is closed stays closed
C25_OnlyLeaderSendsOnce ==
    \A c \in Reqs :
        /\ Len(chans'[c].buf) > Len(chans[c].buf) =>
              /\ leader[c] /\ ch[c] = c
              /\ pc[c] = "send" /\ pc'[c] \in {"delete", "close", "done"}
              /\ ~chans[c].closed /\ ~chans'[c].closed
        /\ pc[c] \in {"delete", "close", "done"} => pc'[c] \in {"delete", "close", "done"}
        /\ chans[c].closed => chans'[c].closed

\* C25: the send of the leader never blocks: only the leader sends on the channel
\* of its key, once, before it closes it, so the channel holds at most one value
\* and is open when the send happens, with or without followers
C25_PublishNeverBlocks == []C25_SendFindsRoom /\ [][C25_OnlyLeaderSendsOnce]_vars

\* C25 witness: a leader has sent, its value is in the channel, one follower of
\* the key has timed out and another still waits
C25_Witness ==
    \E l, f1, f2 \in Reqs :
        /\ leader[l] /\ pc[l] = "delete" /\ chans[l].buf = <<res[l]>>
        /\ f1 # l /\ ch[f1] = l /\ pc[f1] = "done" /\ res[f1].Code = StatusRequestTimeout
        /\ f2 # l /\ ch[f2] = l /\ pc[f2] = "follow"

\* a call made by processEDUs of call r
Dispatched(r) == \E c \in eduCalls : c[1] = r

\* C26: a transaction that is answered with 400 (the body is not JSON, the lists
\* are too long, or a PDU at any place of the list is bad JSON) has none of its
\* EDUs visited and no call made for them
C26_No400AfterEDUs ==
    \A r \in Reqs : (leader[r] /\ res[r].Code = StatusBadRequest) =>
        visited[r] = <<>> /\ ~Dispatched(r)

\* C26 witness: a 400 for a list whose third PDU is bad JSON, after a task was
\* queued for the first, with two EDUs that were not dispatched
C26_Witness ==
    \E r \in Reqs :
        /\ leader[r] /\ pc[r] = "done" /\ res[r] = BadPDUResponse
        /\ Len(txnEvents[r].pdus) = 3 /\ txnEvents[r].pdus[3].kind = "badjson"
        /\ Len(tasks[r]) = 1 /\ Len(txnEvents[r].edus) = 2
        /\ visited[r] = <<>> /\ ~Dispatched(r)

\* the same EDUs are dispatched when no PDU of the list is bad
C26_Contrast ==
    \E r \in Reqs :
        /\ Answered200(r) /\ pc[r] = "done"
        /\ Len(txnEvents[r].pdus) = 3 /\ visited[r] = <<1, 2>> /\ Dispatched(r)

====
